---- MODULE Spec2Model ----
(***************************************************************************)
(* Model of index.js: a chat model bound to two tools (addition,           *)
(* multiplication) is asked one prompt; the returned tool calls are first  *)
(* listed on the console and then invoked one by one through toolMapping.  *)
(*                                                                         *)
(* JavaScript values are tagged with their typeof.  A tool call's args is  *)
(* a function from key names to values, as the object parsed from the      *)
(* model's JSON answer.  The zod object schema is modelled by what its     *)
(* default (non-strict) parse does: a declared key that is missing or of   *)
(* the wrong type is an issue, an undeclared key is stripped.              *)
(***************************************************************************)
EXTENDS Integers, Sequences, FiniteSets, TLC

\* Longest tool_calls list the model answers with.
MaxCalls == 2

Num(n) == [type |-> "number", num |-> n]
Str(s) == [type |-> "string", str |-> s]

EmptyArgs == [k \in {} |-> Num(0)]

\* Argument objects the model may produce: well-formed ones, one with an
\* undeclared key, ones with a string where a number is declared, ones with
\* a missing key.
WellFormedArgs == {[a |-> Num(x), b |-> Num(y)] : x \in {30, 21}, y \in {12, 2}}

MalformedArgs ==
    { [a |-> Num(30), b |-> Num(12), c |-> Num(0)],
      [a |-> Str("x"), b |-> Num(1)],
      [a |-> Str("30"), b |-> Num(12)],
      [a |-> Num(30), b |-> Str("x")],
      [a |-> Num(30)],
      EmptyArgs }

ArgObjects == WellFormedArgs \cup MalformedArgs

ToolNames == {"addition", "multiplication", "unknownTool"}

ToolCalls == [name : ToolNames, args : ArgObjects]

\* The answers of the model: every list of at most MaxCalls tool calls.
ToolCallLists == UNION {[1..n -> ToolCalls] : n \in 0..MaxCalls}

\* z.object({ a: z.number(), b: z.number() })
calculationSchema == [a |-> "number", b |-> "number"]

\* The issues zod reports for args: one per declared key that is absent or
\* whose value has another type than declared.  Undeclared keys raise none.
ZodIssues(schema, args) ==
    {k \in DOMAIN schema : k \notin DOMAIN args \/ args[k].type # schema[k]}

\* The parsed object handed to the tool's function: the declared keys only.
ZodData(schema, args) == [k \in DOMAIN schema |-> args[k]]

\* Mutation of AdditionFn: the body of the other tool pasted in.
AdditionFn_Pasted(input) == input.a.num * input.b.num

AdditionFn(input) == input.a.num + input.b.num

MultiplicationFn(input) == input.a.num * input.b.num

additionTool ==
    [name |-> "addition", description |-> "Add numbers.", schema |-> calculationSchema]

multiplicationTool ==
    [name |-> "multiplication", description |-> "Multiply numbers.", schema |-> calculationSchema]

\* The function a tool wraps, applied to the parsed input.
ToolFunc(t, input) ==
    IF t.name = "addition" THEN AdditionFn(input) ELSE MultiplicationFn(input)

\* llm.bindTools([...]): the tool list is mapped, in order, to the catalog
\* entries sent with every request.
\* Mutation of BindTools: the catalog is built back to front.
BindTools_Reversed(tools) ==
    [k \in 1..Len(tools) |->
        [name |-> tools[Len(tools) + 1 - k].name,
         description |-> tools[Len(tools) + 1 - k].description]]

BindTools(tools) ==
    [k \in 1..Len(tools) |-> [name |-> tools[k].name, description |-> tools[k].description]]

llmWithTools == BindTools(<<additionTool, multiplicationTool>>)

toolMapping == [addition |-> additionTool, multiplication |-> multiplicationTool]

VARIABLES
    pc,          \* position of the script
    catalog,     \* tool catalog sent with the request to the model
    tool_calls,  \* llmOutput.tool_calls
    di,          \* index of the detection loop
    ii,          \* index of the invoke loop
    promise,     \* state of the awaited functionToCall.invoke(...)
    result,      \* value the awaited promise fulfils with
    console,     \* lines printed
    error,       \* error that reached the top level
    invoked,     \* per request: calls of functionToCall.invoke
    executed     \* per request: executions of the tool's function

vars == <<pc, catalog, tool_calls, di, ii, promise, result, console, error, invoked, executed>>

Init ==
    /\ pc = "start"
    /\ catalog = <<>>
    /\ tool_calls = <<>>
    /\ di = 1
    /\ ii = 1
    /\ promise = "none"
    /\ result = 0
    /\ console = <<>>
    /\ error = "none"
    /\ invoked = <<>>
    /\ executed = <<>>

\* await llmWithTools.invoke(prompt) fulfils with a message carrying calls.
LlmInvokeReturns ==
    /\ pc = "start"
    /\ catalog' = llmWithTools
    /\ \E calls \in ToolCallLists :
          /\ tool_calls' = calls
          /\ invoked' = [k \in 1..Len(calls) |-> 0]
          /\ executed' = [k \in 1..Len(calls) |-> 0]
    /\ pc' = "detect"
    /\ UNCHANGED <<di, ii, promise, result, console, error>>

\* Mutation of LlmInvokeFails: the error is noted but the script goes on
\* with whatever part of the answer had arrived.
LlmInvokeFails_GoesOn ==
    /\ pc = "start"
    /\ catalog' = llmWithTools
    /\ error' = "ModelError"
    /\ \E calls \in ToolCallLists :
          /\ tool_calls' = calls
          /\ invoked' = [k \in 1..Len(calls) |-> 0]
          /\ executed' = [k \in 1..Len(calls) |-> 0]
    /\ pc' = "detect"
    /\ UNCHANGED <<di, ii, promise, result, console>>

\* await llmWithTools.invoke(prompt) rejects (transport error, timeout,
\* cancellation): the top-level await rethrows and the script ends.
LlmInvokeFails ==
    /\ pc = "start"
    /\ catalog' = llmWithTools
    /\ error' = "ModelError"
    /\ pc' = "aborted"
    /\ UNCHANGED <<tool_calls, di, ii, promise, result, console, invoked, executed>>

\* One iteration of the "Detected tools" loop.
DetectStep ==
    /\ pc = "detect"
    /\ di <= Len(tool_calls)
    /\ console' = Append(console,
            [kind |-> "Tool", name |-> tool_calls[di].name, args |-> tool_calls[di].args])
    /\ di' = di + 1
    /\ UNCHANGED <<pc, catalog, tool_calls, ii, promise, result, error, invoked, executed>>

DetectEnd ==
    /\ pc = "detect"
    /\ di > Len(tool_calls)
    /\ pc' = "invoke"
    /\ UNCHANGED <<catalog, tool_calls, di, ii, promise, result, console, error, invoked, executed>>

\* toolMapping[toolCall.name] is undefined: reading .invoke of it throws a
\* TypeError, which nothing catches.  (A name inherited from
\* Object.prototype resolves to a value without an invoke method and ends
\* in a TypeError as well.)
InvokeUnknown ==
    /\ pc = "invoke"
    /\ ii <= Len(tool_calls)
    /\ tool_calls[ii].name \notin DOMAIN toolMapping
    /\ error' = "TypeError"
    /\ pc' = "aborted"
    /\ UNCHANGED <<catalog, tool_calls, di, ii, promise, result, console, invoked, executed>>

\* functionToCall.invoke(toolCall.args): the args are parsed against the
\* tool's schema; on issues the promise rejects and the function is not
\* run, otherwise the function runs on the parsed data.
InvokeCall ==
    /\ pc = "invoke"
    /\ ii <= Len(tool_calls)
    /\ tool_calls[ii].name \in DOMAIN toolMapping
    /\ LET functionToCall == toolMapping[tool_calls[ii].name]
           args == tool_calls[ii].args
       IN  /\ invoked' = [invoked EXCEPT ![ii] = @ + 1]
           /\ IF ZodIssues(functionToCall.schema, args) = {}
              THEN /\ executed' = [executed EXCEPT ![ii] = @ + 1]
                   /\ result' = ToolFunc(functionToCall, ZodData(functionToCall.schema, args))
                   /\ promise' = "fulfilled"
              ELSE /\ promise' = "rejected"
                   /\ UNCHANGED <<executed, result>>
    /\ pc' = "await"
    /\ UNCHANGED <<catalog, tool_calls, di, ii, console, error>>

\* The await resumes with the value: print the result line, next iteration.
AwaitFulfilled ==
    /\ pc = "await"
    /\ promise = "fulfilled"
    /\ console' = Append(console,
            [kind |-> "Result", name |-> tool_calls[ii].name,
             args |-> tool_calls[ii].args, result |-> result])
    /\ ii' = ii + 1
    /\ promise' = "none"
    /\ pc' = "invoke"
    /\ UNCHANGED <<catalog, tool_calls, di, result, error, invoked, executed>>

\* Mutation of AwaitRejected: the rejection is swallowed and the same call
\* is tried again.
AwaitRejected_Retry ==
    /\ pc = "await"
    /\ promise = "rejected"
    /\ promise' = "none"
    /\ pc' = "invoke"
    /\ UNCHANGED <<catalog, tool_calls, di, ii, result, console, error, invoked, executed>>

\* The await rethrows the rejection; nothing catches it.
AwaitRejected ==
    /\ pc = "await"
    /\ promise = "rejected"
    /\ error' = "ToolInputParsingException"
    /\ promise' = "none"
    /\ pc' = "aborted"
    /\ UNCHANGED <<catalog, tool_calls, di, ii, result, console, invoked, executed>>

InvokeEnd ==
    /\ pc = "invoke"
    /\ ii > Len(tool_calls)
    /\ pc' = "done"
    /\ UNCHANGED <<catalog, tool_calls, di, ii, promise, result, console, error, invoked, executed>>

Next ==
    \/ LlmInvokeReturns
    \/ LlmInvokeFails
    \/ DetectStep
    \/ DetectEnd
    \/ InvokeUnknown
    \/ InvokeCall
    \/ AwaitFulfilled
    \/ AwaitRejected
    \/ InvokeEnd

Spec == Init /\ [][Next]_vars

(***************************************************************************)
(* Properties                                                              *)
(***************************************************************************)

N == Len(tool_calls)

\* The script has ended, normally or by an uncaught error.
Terminal == pc \in {"done", "aborted"}

\* The model call fulfilled: a tool-call list was obtained.
Returned == pc # "start" /\ error # "ModelError"

ToolLines == SelectSeq(console, LAMBDA l : l.kind = "Tool")

ResultLines == SelectSeq(console, LAMBDA l : l.kind = "Result")

Registered(i) == tool_calls[i].name \in DOMAIN toolMapping

\* Declared number parameters for which the call supplies another type.
MismatchedFields(i) ==
    {k \in DOMAIN calculationSchema \cap DOMAIN tool_calls[i].args :
        tool_calls[i].args[k].type # calculationSchema[k]}

\* Keys of the call's args that the schema does not declare.
UndeclaredKeys(i) == DOMAIN tool_calls[i].args \ DOMAIN calculationSchema

TwoNumbers(args) ==
    /\ {"a", "b"} \subseteq DOMAIN args
    /\ args.a.type = "number"
    /\ args.b.type = "number"

\* What the claim expects of a call on two numbers.
Expected(call) ==
    IF call.name = "addition" THEN call.args.a.num + call.args.b.num
    ELSE call.args.a.num * call.args.b.num

\* The i-th result line is a failure value of the given kind.
FailureRecorded(i, kind) ==
    /\ Len(ResultLines) >= i
    /\ "failure" \in DOMAIN ResultLines[i]
    /\ ResultLines[i].failure = kind

\* C1: for every list of N tool calls the model returns, unknown tool names
\* included, the run ends with exactly N results and the i-th result is the
\* one of the i-th request.
C1_OneResultPerRequestInOrder ==
    (Terminal /\ Returned) =>
        /\ Len(ResultLines) = N
        /\ \A i \in 1..N :
              /\ ResultLines[i].name = tool_calls[i].name
              /\ ResultLines[i].args = tool_calls[i].args

\* C2: a call naming an unregistered tool ends as a failure value of kind
\* UnknownTool: no error is raised, the run does not abort, and every later
\* call is still processed.
C2_UnknownToolIsContained ==
    /\ error # "TypeError"
    /\ (Terminal /\ Returned) =>
          \A i \in 1..N : ~Registered(i) =>
              /\ pc = "done"
              /\ FailureRecorded(i, "UnknownTool")
              /\ \A k \in (i + 1)..N : Registered(k) => invoked[k] = 1

\* C3: a failing invocation is recorded as that call's result and does not
\* propagate; every call after it is still invoked and gets its result.
C3_FailedInvocationIsContained ==
    /\ error # "ToolInputParsingException"
    /\ (Terminal /\ Returned) =>
          \A i \in 1..N : (invoked[i] = 1 /\ executed[i] = 0) =>
              /\ Len(ResultLines) >= i
              /\ \A k \in (i + 1)..N : Registered(k) => invoked[k] = 1

\* C4: a call on two numbers a and b yields a + b when named addition and
\* a * b when named multiplication; the list [addition{30,12},
\* multiplication{21,2}] yields 42 then 42.
C4_ToolsComputeSumAndProduct ==
    /\ (pc = "await" /\ TwoNumbers(tool_calls[ii].args)) =>
          (promise = "fulfilled" /\ result = Expected(tool_calls[ii]))
    /\ \A i \in 1..Len(ResultLines) :
          TwoNumbers(tool_calls[i].args) => ResultLines[i].result = Expected(tool_calls[i])
    /\ (pc = "done" /\ tool_calls = << [name |-> "addition", args |-> [a |-> Num(30), b |-> Num(12)]],
                                       [name |-> "multiplication", args |-> [a |-> Num(21), b |-> Num(2)]] >>) =>
          (Len(ResultLines) = 2 /\ ResultLines[1].result = 42 /\ ResultLines[2].result = 42)

\* The README scenario has run to its end and printed 42 twice.
C4_Witness ==
    /\ pc = "done"
    /\ tool_calls = << [name |-> "addition", args |-> [a |-> Num(30), b |-> Num(12)]],
                       [name |-> "multiplication", args |-> [a |-> Num(21), b |-> Num(2)]] >>
    /\ Len(ResultLines) = 2
    /\ ResultLines[1].result = 42
    /\ ResultLines[2].result = 42

\* C5: a call supplying a non-number for a parameter declared number ends
\* as a failure of kind TypeMismatch naming that field, and the tool's
\* function is never executed for it.
C5_TypeMismatchIsAFailureValue ==
    \A i \in 1..N : (Registered(i) /\ MismatchedFields(i) # {}) =>
        /\ executed[i] = 0
        /\ (Terminal /\ invoked[i] = 1) =>
              /\ FailureRecorded(i, "TypeMismatch")
              /\ ResultLines[i].field \in MismatchedFields(i)

\* C6: a call whose args hold a key the schema does not declare is rejected
\* (UnknownArgument naming the key); the key is never silently ignored and
\* the tool's function is not executed for that call.
C6_UndeclaredKeyIsRejected ==
    \A i \in 1..N : (Registered(i) /\ UndeclaredKeys(i) # {}) =>
        /\ executed[i] = 0
        /\ (Terminal /\ invoked[i] = 1) =>
              /\ FailureRecorded(i, "UnknownArgument")
              /\ ResultLines[i].field \in UndeclaredKeys(i)

\* C7: when the model call fails, the error reaches the top level and no
\* tool is invoked in that run: no tool-call list, no detection line, no
\* result line, no invocation.
C7_ModelFailureStopsTheRun ==
    error = "ModelError" =>
        /\ pc = "aborted"
        /\ tool_calls = <<>>
        /\ console = <<>>
        /\ promise = "none"
        /\ \A i \in DOMAIN invoked : invoked[i] = 0
        /\ \A i \in DOMAIN executed : executed[i] = 0

\* The model call has failed and the run has ended on that error.
C7_Witness == pc = "aborted" /\ error = "ModelError" /\ catalog # <<>>

\* C8: each returned tool call is invoked at most once per run, whether the
\* invocation succeeds or fails: the tool's function runs at most once for
\* request i, and invoke is called at most once for it.
C8_AtMostOneInvocationPerRequest ==
    \A i \in 1..N : executed[i] <= 1 /\ invoked[i] <= 1 /\ executed[i] <= invoked[i]

\* A run in which one call succeeded and the next one failed, each invoked
\* once.
C8_Witness ==
    /\ pc = "aborted"
    /\ error = "ToolInputParsingException"
    /\ N >= 2
    /\ invoked[1] = 1 /\ executed[1] = 1
    /\ invoked[2] = 1 /\ executed[2] = 0

\* C9: the catalog presented to the model lists the tools in registration
\* order, addition first and multiplication second, on every run.
C9_CatalogInRegistrationOrder ==
    pc # "start" =>
        /\ Len(catalog) = 2
        /\ catalog[1].name = "addition"
        /\ catalog[2].name = "multiplication"

\* The catalog has been sent and the model has answered with calls.
C9_Witness == pc = "detect" /\ N > 0 /\ Len(catalog) = 2 /\ catalog[1].name = "addition"

\* C10: for N returned calls the run prints N Tool lines in request order,
\* then N Result lines in request order; nothing is invoked and no result
\* is printed before every Tool line is out, and call i+1 is invoked only
\* after the result line of call i is printed.
C10_ToolLinesThenResultLines ==
    /\ \A i \in 1..N : (invoked[i] > 0 \/ Len(ResultLines) > 0) => Len(ToolLines) = N
    /\ \A i \in 1..N : \A k \in 1..N : (k > i /\ invoked[k] > 0) => Len(ResultLines) >= i
    /\ (Terminal /\ Returned) =>
          /\ Len(console) = 2 * N
          /\ \A i \in 1..N :
                /\ console[i].kind = "Tool"
                /\ console[i].name = tool_calls[i].name
                /\ console[i].args = tool_calls[i].args
                /\ console[N + i].kind = "Result"
                /\ console[N + i].name = tool_calls[i].name
                /\ console[N + i].args = tool_calls[i].args

====
